---- MODULE Spec2Model ----
(***************************************************************************)
(* Bed occupancy, admission/discharge/transfer and telemedicine call       *)
(* window of the hospital-management application, as state machines.       *)
(*                                                                         *)
(* Spec      : admit, discharge and transfer_bed, one whole handler a step.*)
(* SpecDates : admission numbering and dates while the days pass.          *)
(* SpecStay  : admit and discharge with beds while the days pass.          *)
(* SpecBed   : the three Bed methods alone, called in any order.           *)
(* SpecRound : the three Bed methods called in a row on one bed.           *)
(* SpecConc  : admission requests interleaved at database-statement grain. *)
(* SpecXfer  : transfer_bed save by save, the process free to stop.        *)
(* SpecTele  : the telemedicine handlers over one appointment.             *)
(* SpecRoom  : the join handlers interleaved at database-statement grain.  *)
(* SpecNote  : signing and amending one SOAP note.                         *)
(*                                                                         *)
(* Instants are whole seconds. An appointment's date and time are taken in *)
(* the clock's own time zone.                                              *)
(***************************************************************************)
EXTENDS Integers, Sequences, FiniteSets, TLC

VARIABLES
    now,          \* timezone.now(), in seconds
    beds,         \* the Bed table: bed id -> row
    admissions,   \* the PatientAdmission table, in insertion order
    transfers,    \* the PatientTransfer table, in insertion order
    lastOp,       \* how the last handler ended
    req,          \* SpecConc, SpecRound: the callers in flight and their local objects
    appt,         \* SpecTele: the Appointment row
    resp,         \* SpecTele: the last response a telemedicine handler gave
    note          \* SpecNote: the SOAPNote row

vars == <<now, beds, admissions, transfers, lastOp, req, appt, resp, note>>

NULL == "null"
NoTime == 0 - 1          \* a DateTimeField holding NULL
NoNumber == <<>>         \* admission_number still empty

\* ------------------------------------------------------------ bounds
MaxAdmissions == 2      \* rows the PatientAdmission table may hold
MaxTransfers == 1       \* rows the PatientTransfer table may hold
MaxDays == 1            \* days the ADT clock may run past day 0
TeleLead == 6           \* minutes the telemedicine clock starts before the window opens
TeleTail == 2           \* minutes the telemedicine clock runs after the window closes
MaxAmendments == 2      \* amendments a SOAP note may collect

\* ------------------------------------------------------------ universe
Beds == {"b1", "b2"}
Patients == {"p1", "p2"}
Staff == {"d1", "d2"}

SecondsPerDay == 24 * 60 * 60
HalfDay == SecondsPerDay \div 2

\* datetime.date(): the calendar day of an instant
DateOf(t) == t \div SecondsPerDay

\* ------------------------------------------------------------ Bed
BED_STATUS_CHOICES == {"available", "occupied", "reserved", "maintenance", "cleaning"}

\* A freshly created Bed row: the field defaults.
NewBed == [status |-> "available", current_patient |-> NULL,
           is_active |-> TRUE, last_cleaned |-> NoTime]

\* Bed.mark_occupied: unconditional
mark_occupied(bed, patient) ==
    [bed EXCEPT !.status = "occupied", !.current_patient = patient]

\* Bed.mark_available going straight to 'available', skipping the cleaning
mark_available_Direct(bed) ==
    [bed EXCEPT !.status = "available", !.current_patient = NULL]

\* Bed.mark_available: unconditional, enters cleaning
mark_available(bed) ==
    [bed EXCEPT !.status = "cleaning", !.current_patient = NULL]

\* Bed.mark_cleaned: unconditional
mark_cleaned(bed, t) ==
    [bed EXCEPT !.status = "available", !.last_cleaned = t]

\* Rows an administrator can have set up before any patient arrives
\* (BedAdmin edits status; no patient is bound).
AdminBedRows ==
    {[NewBed EXCEPT !.status = s] : s \in {"available", "reserved", "maintenance"}}

\* ------------------------------------------------------------ Ward
Wards == {"w1", "w2"}

\* bed.room.ward: both beds stand in ward w1; ward w2 has no bed
WardOf == [b \in Beds |-> "w1"]

\* Bed.objects.filter(room__ward=w).count(): the is_active filter left out
total_beds_AllBeds(bedtable, w) ==
    Cardinality({b \in Beds : WardOf[b] = w})

\* Ward.total_beds
total_beds(bedtable, w) ==
    Cardinality({b \in Beds : WardOf[b] = w /\ bedtable[b].is_active})

\* Bed.objects.filter(room__ward=w, is_active=True, status=s).count(), the
\* query of Ward.available_beds (s = 'available') and of occupancy_rate
\* (s = 'occupied')
ActiveBedsWithStatus(bedtable, w, s) ==
    Cardinality({b \in Beds : /\ WardOf[b] = w
                              /\ bedtable[b].is_active
                              /\ bedtable[b].status = s})

\* Ward.available_beds
available_beds(bedtable, w) == ActiveBedsWithStatus(bedtable, w, "available")

\* ------------------------------------------------------------ PatientAdmission
ACTIVE_STATUSES == {"admitted", "in_treatment", "pending_discharge"}

\* PatientAdmission.is_active
is_active(adm) == adm.status \in ACTIVE_STATUSES

\* the decimal digits of n, most significant first
RECURSIVE Digits(_)
Digits(n) == IF n < 10 THEN <<n>> ELSE Digits(n \div 10) \o <<n % 10>>

\* format spec "0{w}d": left-pad with zeros to at least w digits
RECURSIVE ZeroPad(_, _)
ZeroPad(s, w) == IF Len(s) >= w THEN s ELSE ZeroPad(<<0>> \o s, w)

\* f"ADM-{today}-{count:04d}": the prefix, the day (strftime('%Y%m%d') is
\* one-to-one on days) and the padded digits
FormatAdmissionNumber(day, count) == <<"ADM", day, ZeroPad(Digits(count), 4)>>

\* PatientAdmission.objects.filter(admission_date__date=day).count()
CountOnDate(adms, day) ==
    Cardinality({i \in DOMAIN adms : DateOf(adms[i].admission_date) = day})

\* PatientAdmission.save, the number it generates at instant t
GenerateAdmissionNumber(adms, t) ==
    FormatAdmissionNumber(DateOf(t), CountOnDate(adms, DateOf(t)) + 1)

\* the unique index left out: no INSERT is ever refused
UniqueViolation_Dropped(adms, number) == FALSE

\* admission_number is unique=True: the INSERT is refused when the number is taken
UniqueViolation(adms, number) ==
    \E i \in DOMAIN adms : adms[i].admission_number = number

\* A new PatientAdmission instance as the create form or the admin builds it
NewAdmission(patient, bed, adate, t) ==
    [admission_number |-> NoNumber, patient |-> patient, status |-> "admitted",
     admission_date |-> adate, actual_discharge_date |-> NoTime,
     discharged_by |-> NULL, discharge_diagnosis |-> "", discharge_summary |-> "",
     discharge_instructions |-> "", bed |-> bed, created_at |-> t]

\* PatientAdmission.discharge with the discharge time left unstamped
discharge_Unstamped(adm, inp, t) ==
    [adm EXCEPT !.status = "discharged",
                !.discharged_by = inp.by, !.discharge_diagnosis = inp.diagnosis,
                !.discharge_summary = inp.summary,
                !.discharge_instructions = inp.instructions]

\* PatientAdmission.discharge, the fields it assigns on the instance
discharge(adm, inp, t) ==
    [adm EXCEPT !.status = "discharged", !.actual_discharge_date = t,
                !.discharged_by = inp.by, !.discharge_diagnosis = inp.diagnosis,
                !.discharge_summary = inp.summary,
                !.discharge_instructions = inp.instructions]

\* PatientAdmission.length_of_stay read at instant t: timedelta.days, the
\* floor of the difference in days
length_of_stay(adm, t) ==
    LET end_date == IF adm.actual_discharge_date # NoTime
                    THEN adm.actual_discharge_date ELSE t
        delta == end_date - adm.admission_date
    IN  delta \div SecondsPerDay

\* what a discharge form can carry
DischargeInputs ==
    {[by |-> "d1", diagnosis |-> "dx1", summary |-> "sum1", instructions |-> "ins1"],
     [by |-> "d2", diagnosis |-> "dx2", summary |-> "sum2", instructions |-> "ins2"]}

\* PatientTransfer.objects.create(...) in transfer_bed
NewTransfer(a, old_bed, new_bed) ==
    [admission |-> a, from_bed |-> old_bed, to_bed |-> new_bed,
     transfer_reason |-> "bed_transfer"]

\* ------------------------------------------------------------ requests (SpecConc)
Reqs == {"r1", "r2"}
IdleReq == [pc |-> "idle", patient |-> NULL, bed |-> NULL, adate |-> NoTime,
            bedrow |-> NULL, number |-> NoNumber, result |-> "none"]

\* ------------------------------------------------------------ appointment (SpecTele)
Users == {"doc", "pat", "eve"}
RoomNames == {"telemed_a", "telemed_b"}     \* what uuid4 may yield

PreMinutes == 10       \* timedelta(minutes=10) before the appointment
PostMinutes == 30      \* timedelta(minutes=30) after the appointment

\* The appointment of the model: doctor doc, patient pat, on day 0 at a time
\* that leaves TeleLead minutes before the window opens.
NewAppointment ==
    [doctor |-> "doc", patient |-> "pat", date |-> 0,
     time |-> (PreMinutes + TeleLead) * 60,
     is_telemedicine |-> FALSE, jitsi_room_name |-> NULL]

\* Appointment.get_appointment_datetime: datetime.combine(date, time), made aware
get_appointment_datetime(a) == a.date * SecondsPerDay + a.time

\* Appointment.can_user_join_call, letting every logged-in user in
can_user_join_call_Anyone(a, user) == TRUE

\* Appointment.can_user_join_call, letting only the doctor in
can_user_join_call_DoctorOnly(a, user) == user = a.doctor

\* Appointment.can_user_join_call
can_user_join_call(a, user) == user = a.doctor \/ user = a.patient

\* Appointment.is_available_for_call without the is_telemedicine test
is_available_for_call_IgnoresFlag(a, t) ==
    LET start_window == get_appointment_datetime(a) - PreMinutes * 60
        end_window == get_appointment_datetime(a) + PostMinutes * 60
    IN  IF t < start_window
        THEN [ok |-> FALSE, kind |-> "too_early", minutes |-> (start_window - t) \div 60]
        ELSE IF t > end_window
        THEN [ok |-> FALSE, kind |-> "expired", minutes |-> 0]
        ELSE [ok |-> TRUE, kind |-> "available", minutes |-> 0]

\* Appointment.is_available_for_call with the closing instant shut out
is_available_for_call_ClosedEnd(a, t) ==
    LET start_window == get_appointment_datetime(a) - PreMinutes * 60
        end_window == get_appointment_datetime(a) + PostMinutes * 60
    IN  IF ~a.is_telemedicine
        THEN [ok |-> FALSE, kind |-> "not_telemedicine", minutes |-> 0]
        ELSE IF t < start_window
        THEN [ok |-> FALSE, kind |-> "too_early", minutes |-> (start_window - t) \div 60]
        ELSE IF t >= end_window
        THEN [ok |-> FALSE, kind |-> "expired", minutes |-> 0]
        ELSE [ok |-> TRUE, kind |-> "available", minutes |-> 0]

\* Appointment.is_available_for_call at instant t: the flag and which of its
\* four messages it returns; minutes is int(total_seconds() / 60)
is_available_for_call(a, t) ==
    LET start_window == get_appointment_datetime(a) - PreMinutes * 60
        end_window == get_appointment_datetime(a) + PostMinutes * 60
    IN  IF ~a.is_telemedicine
        THEN [ok |-> FALSE, kind |-> "not_telemedicine", minutes |-> 0]
        ELSE IF t < start_window
        THEN [ok |-> FALSE, kind |-> "too_early", minutes |-> (start_window - t) \div 60]
        ELSE IF t > end_window
        THEN [ok |-> FALSE, kind |-> "expired", minutes |-> 0]
        ELSE [ok |-> TRUE, kind |-> "available", minutes |-> 0]

\* Appointment.time_until_available
time_until_available(a, t) ==
    LET start_window == get_appointment_datetime(a) - PreMinutes * 60
    IN  IF t < start_window THEN (start_window - t) \div 60 ELSE 0

\* Appointment.get_jitsi_room_name: the stored name, or the fresh one it stores
get_jitsi_room_name(a, fresh) ==
    IF a.jitsi_room_name = NULL THEN fresh ELSE a.jitsi_room_name

NoResp == [handler |-> "none", user |-> NULL, status |-> "none", authorized |-> FALSE,
           is_available |-> FALSE, kind |-> "none", minutes |-> 0,
           time_until_available |-> 0, room_name |-> NULL]

\* ------------------------------------------------------------ SOAPNote
NOTE_STATUS_CHOICES == {"draft", "completed", "amended", "signed"}
AmendmentTexts == {"text1", "text2"}

\* A freshly created SOAPNote row, written by provider d1
NewNote == [provider |-> "d1", status |-> "draft", signed_at |-> NoTime,
            amendment_notes |-> <<>>]

\* SOAPNote.sign_note at instant t
sign_note(n, t) == [n EXCEPT !.status = "signed", !.signed_at = t]

\* SOAPNote.amend_note at instant t: amendment_notes grows by one stamped
\* entry (strftime('%Y-%m-%d %H:%M'): the minute) holding the text
amend_note(n, amendment_text, t) ==
    IF n.status = "signed"
    THEN [n EXCEPT !.status = "amended",
                   !.amendment_notes =
                       Append(@, [at |-> t \div 60, text |-> amendment_text])]
    ELSE n

\* SOAPNote.is_locked taking only 'signed' for locked
is_locked_SignedOnly(n) == n.status = "signed"

\* SOAPNote.is_locked
is_locked(n) == n.status \in {"signed", "amended"}

\* ------------------------------------------------------------ initial states
InitOther ==
    /\ req = [r \in Reqs |-> IdleReq]
    /\ appt = NewAppointment
    /\ resp = NoResp
    /\ note = NewNote

Init ==
    /\ now = 0
    /\ beds = [b \in Beds |-> NewBed]
    /\ admissions = <<>>
    /\ transfers = <<>>
    /\ lastOp = "none"
    /\ InitOther

\* ------------------------------------------------------------ ADT handlers, whole
\* AdmissionCreateView: POST with patient p and bed b (NULL: no bed chosen).
\* get_form limits the bed field to status='available'; form_valid saves the
\* admission, then marks the bed occupied.
Admit(p, b) ==
    /\ Len(admissions) < MaxAdmissions
    /\ LET number == GenerateAdmissionNumber(admissions, now)
           adm == [NewAdmission(p, b, now, now) EXCEPT !.admission_number = number]
       IN  IF b # NULL /\ beds[b].status # "available"
           THEN /\ lastOp' = "FormInvalid"
                /\ UNCHANGED <<beds, admissions>>
           ELSE IF UniqueViolation(admissions, number)
           THEN /\ lastOp' = "IntegrityError"
                /\ UNCHANGED <<beds, admissions>>
           ELSE /\ admissions' = Append(admissions, adm)
                /\ beds' = IF b # NULL
                           THEN [beds EXCEPT ![b] = mark_occupied(@, p)]
                           ELSE beds
                /\ lastOp' = "ok"
    /\ UNCHANGED <<now, transfers, req, appt, resp, note>>

\* the admission dates an administrator may enter: twelve hours ago (the
\* calendar day before), this instant, this time tomorrow
AdmissionDates(t) == {t - HalfDay, t, t + SecondsPerDay}

\* PatientAdmissionAdmin add form: admission_date is an editable field; the row
\* goes through PatientAdmission.save. No bed is chosen here.
AdminAddAdmission(p, adate) ==
    /\ Len(admissions) < MaxAdmissions
    /\ LET number == GenerateAdmissionNumber(admissions, now)
           adm == [NewAdmission(p, NULL, adate, now) EXCEPT !.admission_number = number]
       IN  IF UniqueViolation(admissions, number)
           THEN /\ lastOp' = "IntegrityError"
                /\ UNCHANGED admissions
           ELSE /\ admissions' = Append(admissions, adm)
                /\ lastOp' = "ok"
    /\ UNCHANGED <<now, beds, transfers, req, appt, resp, note>>

\* PatientAdmission.discharge(discharged_by, diagnosis, summary, instructions)
Discharge(a, inp) ==
    /\ a \in DOMAIN admissions
    /\ LET adm == admissions[a]
       IN  /\ beds' = IF adm.bed # NULL
                      THEN [beds EXCEPT ![adm.bed] = mark_available(@)]
                      ELSE beds
           /\ admissions' = [admissions EXCEPT ![a] = discharge(adm, inp, now)]
    /\ lastOp' = "ok"
    /\ UNCHANGED <<now, transfers, req, appt, resp, note>>

\* PatientAdmission.transfer_bed(new_bed)
TransferBed(a, new_bed) ==
    /\ a \in DOMAIN admissions
    /\ Len(transfers) < MaxTransfers
    /\ LET adm == admissions[a]
           old_bed == adm.bed
           released == IF old_bed # NULL
                       THEN [beds EXCEPT ![old_bed] = mark_available(@)]
                       ELSE beds
       IN  /\ beds' = [released EXCEPT ![new_bed] = mark_occupied(@, adm.patient)]
           /\ admissions' = [admissions EXCEPT ![a].bed = new_bed]
           /\ transfers' = Append(transfers, NewTransfer(a, old_bed, new_bed))
    /\ lastOp' = "ok"
    /\ UNCHANGED <<now, req, appt, resp, note>>

\* Bed.mark_cleaned(), called by housekeeping on any bed
MarkCleaned(b) ==
    /\ beds' = [beds EXCEPT ![b] = mark_cleaned(@, now)]
    /\ lastOp' = "ok"
    /\ UNCHANGED <<now, admissions, transfers, req, appt, resp, note>>

\* a day passes
Tick ==
    /\ now + SecondsPerDay <= MaxDays * SecondsPerDay
    /\ now' = now + SecondsPerDay
    /\ UNCHANGED <<beds, admissions, transfers, lastOp, req, appt, resp, note>>

Next ==
    \/ \E p \in Patients, b \in Beds \cup {NULL} : Admit(p, b)
    \/ \E a \in 1..MaxAdmissions, inp \in DischargeInputs : Discharge(a, inp)
    \/ \E a \in 1..MaxAdmissions, b \in Beds : TransferBed(a, b)

Spec == Init /\ [][Next]_vars

\* ------------------------------------------------------------ numbering and dates
NextDates ==
    \/ \E p \in Patients : Admit(p, NULL)
    \/ \E p \in Patients, adate \in AdmissionDates(now) : AdminAddAdmission(p, adate)
    \/ \E a \in 1..MaxAdmissions, inp \in DischargeInputs : Discharge(a, inp)
    \/ Tick

SpecDates == Init /\ [][NextDates]_vars

\* ------------------------------------------------------------ stays, while the days pass
NextStay ==
    \/ \E p \in Patients, b \in Beds \cup {NULL} : Admit(p, b)
    \/ \E a \in 1..MaxAdmissions, inp \in DischargeInputs : Discharge(a, inp)
    \/ Tick

SpecStay == Init /\ [][NextStay]_vars

\* ------------------------------------------------------------ the Bed methods alone
InitBed ==
    /\ now = 0
    /\ beds \in [Beds -> AdminBedRows]
    /\ admissions = <<>>
    /\ transfers = <<>>
    /\ lastOp = "none"
    /\ InitOther

\* bed.mark_occupied(patient), called on any bed
BedOccupy(b, p) ==
    /\ beds' = [beds EXCEPT ![b] = mark_occupied(@, p)]
    /\ lastOp' = "ok"
    /\ UNCHANGED <<now, admissions, transfers, req, appt, resp, note>>

\* bed.mark_available(), called on any bed
BedRelease(b) ==
    /\ beds' = [beds EXCEPT ![b] = mark_available(@)]
    /\ lastOp' = "ok"
    /\ UNCHANGED <<now, admissions, transfers, req, appt, resp, note>>

\* BedAdmin: an administrator takes a bed out of service or puts it back
AdminSetActive(b, act) ==
    /\ beds[b].is_active # act
    /\ beds' = [beds EXCEPT ![b].is_active = act]
    /\ UNCHANGED <<now, admissions, transfers, lastOp, req, appt, resp, note>>

NextBed ==
    \/ \E b \in Beds, p \in Patients : BedOccupy(b, p)
    \/ \E b \in Beds, act \in BOOLEAN : AdminSetActive(b, act)
    \/ \E b \in Beds : BedRelease(b)
    \/ \E b \in Beds : MarkCleaned(b)
    \/ Tick

SpecBed == InitBed /\ [][NextBed]_vars

\* ------------------------------------------------------------ admissions, interleaved
\* Each request runs the admission handler one database statement at a time:
\* the form's bed query, save()'s COUNT, save()'s INSERT, mark_occupied's UPDATE.

\* rows that requests past validation may still insert
PendingInserts == Cardinality({r \in Reqs : req[r].pc \in {"count", "insert"}})

\* POST arrives; the form is validated. With a bed the request comes from
\* AdmissionCreateView (admission_date defaults to now); without one it may
\* also be the admin add form, where admission_date is entered.
ReqPost(r, p, b, adate) ==
    /\ req[r].pc = "idle"
    /\ Len(admissions) + PendingInserts < MaxAdmissions
    /\ b # NULL => adate = now
    /\ req' = [req EXCEPT ![r] =
                 IF b # NULL /\ beds[b].status # "available"
                 THEN [IdleReq EXCEPT !.pc = "done", !.patient = p, !.bed = b,
                                      !.adate = adate, !.result = "FormInvalid"]
                 ELSE [IdleReq EXCEPT !.pc = "count", !.patient = p, !.bed = b,
                                      !.adate = adate,
                                      !.bedrow = IF b # NULL THEN beds[b] ELSE NULL]]
    /\ UNCHANGED <<now, beds, admissions, transfers, lastOp, appt, resp, note>>

\* save(): the COUNT query and the formatting of the number
ReqCount(r) ==
    /\ req[r].pc = "count"
    /\ req' = [req EXCEPT ![r].pc = "insert",
                          ![r].number = GenerateAdmissionNumber(admissions, now)]
    /\ UNCHANGED <<now, beds, admissions, transfers, lastOp, appt, resp, note>>

\* save(): the INSERT, refused by the unique index when the number is taken
ReqInsert(r) ==
    /\ req[r].pc = "insert"
    /\ IF UniqueViolation(admissions, req[r].number)
       THEN /\ req' = [req EXCEPT ![r].pc = "done", ![r].result = "IntegrityError"]
            /\ UNCHANGED admissions
       ELSE /\ admissions' = Append(admissions,
                 [NewAdmission(req[r].patient, req[r].bed, req[r].adate, now)
                     EXCEPT !.admission_number = req[r].number])
            /\ req' = [req EXCEPT ![r].pc = IF req[r].bed # NULL THEN "occupy" ELSE "done",
                                  ![r].result = IF req[r].bed # NULL THEN "none" ELSE "ok"]
    /\ UNCHANGED <<now, beds, transfers, lastOp, appt, resp, note>>

\* admission.bed.mark_occupied(patient): the Bed instance loaded by the form
\* is changed and saved whole
ReqOccupy(r) ==
    /\ req[r].pc = "occupy"
    /\ beds' = [beds EXCEPT ![req[r].bed] = mark_occupied(req[r].bedrow, req[r].patient)]
    /\ req' = [req EXCEPT ![r].pc = "done", ![r].result = "ok"]
    /\ UNCHANGED <<now, admissions, transfers, lastOp, appt, resp, note>>

\* the response is sent; the worker takes the next request
ReqFinish(r) ==
    /\ req[r].pc = "done"
    /\ req' = [req EXCEPT ![r] = IdleReq]
    /\ UNCHANGED <<now, beds, admissions, transfers, lastOp, appt, resp, note>>

NextConc ==
    \/ \E r \in Reqs, p \in Patients, b \in Beds \cup {NULL}, adate \in AdmissionDates(now) :
          ReqPost(r, p, b, adate)
    \/ \E r \in Reqs : ReqCount(r)
    \/ \E r \in Reqs : ReqInsert(r)
    \/ \E r \in Reqs : ReqOccupy(r)
    \/ \E r \in Reqs : ReqFinish(r)

SpecConc == Init /\ [][NextConc]_vars

\* ------------------------------------------------------------ one bed, three calls in a row
\* A caller takes a bed and calls mark_occupied(p), mark_available() and
\* mark_cleaned() on it, one call a step; nobody else touches that bed
\* meanwhile. req[r] holds the caller's position, its patient and the row as
\* it was before the first call.
RoundPcs == {"rt_occupy", "rt_release", "rt_clean", "done"}

RoundStart(r, b, p) ==
    /\ req[r].pc = "idle"
    /\ \A o \in Reqs : req[o].pc # "idle" => req[o].bed # b
    /\ req' = [req EXCEPT ![r] = [IdleReq EXCEPT !.pc = "rt_occupy", !.patient = p,
                                                 !.bed = b, !.bedrow = beds[b]]]
    /\ UNCHANGED <<now, beds, admissions, transfers, lastOp, appt, resp, note>>

\* bed.mark_occupied(patient)
RoundOccupy(r) ==
    /\ req[r].pc = "rt_occupy"
    /\ beds' = [beds EXCEPT ![req[r].bed] = mark_occupied(@, req[r].patient)]
    /\ req' = [req EXCEPT ![r].pc = "rt_release"]
    /\ UNCHANGED <<now, admissions, transfers, lastOp, appt, resp, note>>

\* bed.mark_available()
RoundRelease(r) ==
    /\ req[r].pc = "rt_release"
    /\ beds' = [beds EXCEPT ![req[r].bed] = mark_available(@)]
    /\ req' = [req EXCEPT ![r].pc = "rt_clean"]
    /\ UNCHANGED <<now, admissions, transfers, lastOp, appt, resp, note>>

\* bed.mark_cleaned()
RoundCleaned(r) ==
    /\ req[r].pc = "rt_clean"
    /\ beds' = [beds EXCEPT ![req[r].bed] = mark_cleaned(@, now)]
    /\ req' = [req EXCEPT ![r].pc = "done", ![r].result = "ok"]
    /\ UNCHANGED <<now, admissions, transfers, lastOp, appt, resp, note>>

NextRound ==
    \/ \E r \in Reqs, b \in Beds, p \in Patients : RoundStart(r, b, p)
    \/ \E r \in Reqs : RoundOccupy(r)
    \/ \E r \in Reqs : RoundRelease(r)
    \/ \E r \in Reqs : RoundCleaned(r)
    \/ \E r \in Reqs : ReqFinish(r)
    \/ Tick

SpecRound == InitBed /\ [][NextRound]_vars

\* ------------------------------------------------------------ transfer_bed, save by save
\* One transfer_bed call at a time, one database statement a step; the
\* process may stop after any statement. No statement runs in a
\* transaction, so each save is committed on its own. req[r] holds the
\* call's position and its local objects: self, old_bed and new_bed as loaded.

\* Patient p1 lies in bed b1; a second admission without a bed may exist;
\* bed b2 is as the administrator set it up.
InitXfer ==
    /\ now = 0
    /\ \E row \in AdminBedRows :
          beds = [b \in Beds |-> IF b = "b1" THEN mark_occupied(NewBed, "p1") ELSE row]
    /\ \E more \in {<<>>, <<[NewAdmission("p2", NULL, 0, 0) EXCEPT
                                !.admission_number = FormatAdmissionNumber(0, 2)]>>} :
          admissions = <<[NewAdmission("p1", "b1", 0, 0) EXCEPT
                             !.admission_number = FormatAdmissionNumber(0, 1)]>> \o more
    /\ transfers = <<>>
    /\ lastOp = "none"
    /\ InitOther

\* admission.transfer_bed(new_bed) is entered: old_bed = self.bed
XferStart(r, a, new_bed) ==
    /\ \A o \in Reqs : req[o].pc = "idle"
    /\ a \in DOMAIN admissions
    /\ Len(transfers) < MaxTransfers
    /\ req' = [req EXCEPT ![r] =
                 [pc |-> "xf_release", adm |-> a, self |-> admissions[a],
                  patient |-> admissions[a].patient,
                  bed |-> new_bed, bedrow |-> beds[new_bed],
                  old_bed |-> admissions[a].bed,
                  old_row |-> IF admissions[a].bed # NULL
                              THEN beds[admissions[a].bed] ELSE NULL,
                  ledger |-> Len(transfers), result |-> "none"]]
    /\ UNCHANGED <<now, beds, admissions, transfers, lastOp, appt, resp, note>>

\* if old_bed: old_bed.mark_available()
XferRelease(r) ==
    /\ req[r].pc = "xf_release"
    /\ beds' = IF req[r].old_bed # NULL
               THEN [beds EXCEPT ![req[r].old_bed] = mark_available(req[r].old_row)]
               ELSE beds
    /\ req' = [req EXCEPT ![r].pc = "xf_occupy"]
    /\ UNCHANGED <<now, admissions, transfers, lastOp, appt, resp, note>>

\* new_bed.mark_occupied(self.patient)
XferOccupy(r) ==
    /\ req[r].pc = "xf_occupy"
    /\ beds' = [beds EXCEPT ![req[r].bed] = mark_occupied(req[r].bedrow, req[r].patient)]
    /\ req' = [req EXCEPT ![r].pc = "xf_save"]
    /\ UNCHANGED <<now, admissions, transfers, lastOp, appt, resp, note>>

\* self.bed = new_bed; self.save()
XferSave(r) ==
    /\ req[r].pc = "xf_save"
    /\ admissions' = [admissions EXCEPT ![req[r].adm] =
                         [req[r].self EXCEPT !.bed = req[r].bed]]
    /\ req' = [req EXCEPT ![r].pc = "xf_ledger"]
    /\ UNCHANGED <<now, beds, transfers, lastOp, appt, resp, note>>

\* PatientTransfer.objects.create(...)
XferLedger(r) ==
    /\ req[r].pc = "xf_ledger"
    /\ transfers' = Append(transfers,
                           NewTransfer(req[r].adm, req[r].old_bed, req[r].bed))
    /\ req' = [req EXCEPT ![r].pc = "done", ![r].result = "ok"]
    /\ UNCHANGED <<now, beds, admissions, lastOp, appt, resp, note>>

\* the process stops between two statements; what was saved stays saved
XferCrash(r) ==
    /\ req[r].pc \in {"xf_release", "xf_occupy", "xf_save", "xf_ledger"}
    /\ req' = [req EXCEPT ![r].pc = "done", ![r].result = "crashed"]
    /\ UNCHANGED <<now, beds, admissions, transfers, lastOp, appt, resp, note>>

NextXfer ==
    \/ \E r \in Reqs, a \in 1..MaxAdmissions, b \in Beds : XferStart(r, a, b)
    \/ \E r \in Reqs : XferRelease(r)
    \/ \E r \in Reqs : XferOccupy(r)
    \/ \E r \in Reqs : XferSave(r)
    \/ \E r \in Reqs : XferLedger(r)
    \/ \E r \in Reqs : XferCrash(r)
    \/ \E r \in Reqs : ReqFinish(r)

SpecXfer == InitXfer /\ [][NextXfer]_vars

\* ------------------------------------------------------------ telemedicine handlers
InitTele ==
    /\ now = 0
    /\ beds = [b \in Beds |-> NewBed]
    /\ admissions = <<>>
    /\ transfers = <<>>
    /\ lastOp = "none"
    /\ req = [r \in Reqs |-> IdleReq]
    /\ appt \in {[NewAppointment EXCEPT !.is_telemedicine = f] : f \in BOOLEAN}
    /\ resp = NoResp
    /\ note = NewNote

\* what both handlers put in the response once the user may join
JoinResponse(handler, u, fresh) ==
    LET av == is_available_for_call(appt, now)
    IN  [handler |-> handler, user |-> u, status |-> "200", authorized |-> TRUE,
         is_available |-> av.ok, kind |-> av.kind, minutes |-> av.minutes,
         time_until_available |->
             IF av.ok THEN 0 ELSE time_until_available(appt, now),
         room_name |-> IF av.ok THEN get_jitsi_room_name(appt, fresh) ELSE NULL]

\* jitsi_telemedicine_room(request, appointment_id), request.user = u
JitsiTelemedicineRoom(u, fresh) ==
    /\ IF ~can_user_join_call(appt, u)
       THEN /\ resp' = [NoResp EXCEPT !.handler = "room", !.user = u, !.status = "302"]
            /\ UNCHANGED appt
       ELSE /\ resp' = JoinResponse("room", u, fresh)
            /\ appt' = IF is_available_for_call(appt, now).ok
                       THEN [appt EXCEPT !.jitsi_room_name = get_jitsi_room_name(appt, fresh)]
                       ELSE appt
    /\ UNCHANGED <<now, beds, admissions, transfers, lastOp, req, note>>

\* check_telemedicine_status(request, appointment_id), request.user = u
CheckTelemedicineStatus(u, fresh) ==
    /\ IF ~can_user_join_call(appt, u)
       THEN /\ resp' = [NoResp EXCEPT !.handler = "status", !.user = u, !.status = "403"]
            /\ UNCHANGED appt
       ELSE /\ resp' = JoinResponse("status", u, fresh)
            /\ appt' = IF is_available_for_call(appt, now).ok
                       THEN [appt EXCEPT !.jitsi_room_name = get_jitsi_room_name(appt, fresh)]
                       ELSE appt
    /\ UNCHANGED <<now, beds, admissions, transfers, lastOp, req, note>>

\* toggle_telemedicine open to both participants of the appointment
ToggleTelemedicine_Participants(u) ==
    /\ IF ~can_user_join_call(appt, u)
       THEN /\ resp' = [NoResp EXCEPT !.handler = "toggle", !.user = u, !.status = "403"]
            /\ UNCHANGED appt
       ELSE /\ appt' = [appt EXCEPT !.is_telemedicine = ~appt.is_telemedicine]
            /\ resp' = [NoResp EXCEPT !.handler = "toggle", !.user = u, !.status = "200",
                                      !.authorized = TRUE]
    /\ UNCHANGED <<now, beds, admissions, transfers, lastOp, req, note>>

\* toggle_telemedicine(request, appointment_id), request.user = u
ToggleTelemedicine(u) ==
    /\ IF u # appt.doctor
       THEN /\ resp' = [NoResp EXCEPT !.handler = "toggle", !.user = u, !.status = "403"]
            /\ UNCHANGED appt
       ELSE /\ appt' = [appt EXCEPT !.is_telemedicine = ~appt.is_telemedicine]
            /\ resp' = [NoResp EXCEPT !.handler = "toggle", !.user = u, !.status = "200",
                                      !.authorized = TRUE]
    /\ UNCHANGED <<now, beds, admissions, transfers, lastOp, req, note>>

\* the response has gone out; a second or a minute passes
TickTele(d) ==
    /\ now + d <= (TeleLead + PreMinutes + PostMinutes + TeleTail) * 60
    /\ now' = now + d
    /\ resp' = NoResp
    /\ UNCHANGED <<beds, admissions, transfers, lastOp, req, appt, note>>

NextTele ==
    \/ \E u \in Users, fresh \in RoomNames : JitsiTelemedicineRoom(u, fresh)
    \/ \E u \in Users, fresh \in RoomNames : CheckTelemedicineStatus(u, fresh)
    \/ \E u \in Users : ToggleTelemedicine(u)
    \/ \E d \in {1, 60} : TickTele(d)

SpecTele == InitTele /\ [][NextTele]_vars

\* ------------------------------------------------------------ join requests, interleaved
\* Each request to a join handler runs in two database statements: the
\* SELECT of get_object_or_404 and, inside get_jitsi_room_name, the UPDATE
\* of jitsi_room_name. req[r] holds the request's user, the Appointment
\* instance it loaded and the room name it answers with.

\* a telemedicine appointment at its scheduled time, no room name yet
InitRoom ==
    /\ now = get_appointment_datetime(NewAppointment)
    /\ beds = [b \in Beds |-> NewBed]
    /\ admissions = <<>>
    /\ transfers = <<>>
    /\ lastOp = "none"
    /\ req = [r \in Reqs |-> IdleReq]
    /\ appt = [NewAppointment EXCEPT !.is_telemedicine = TRUE]
    /\ resp = NoResp
    /\ note = NewNote

\* get_object_or_404, can_user_join_call and is_available_for_call
RoomRequest(r, u) ==
    /\ req[r].pc = "idle"
    /\ req' = [req EXCEPT ![r] =
                 [pc |-> IF can_user_join_call(appt, u) /\ is_available_for_call(appt, now).ok
                         THEN "get_name" ELSE "done",
                  user |-> u, appt |-> appt, room_name |-> NULL,
                  result |-> IF ~can_user_join_call(appt, u) THEN "refused"
                             ELSE IF ~is_available_for_call(appt, now).ok
                             THEN "unavailable" ELSE "none"]]
    /\ UNCHANGED <<now, beds, admissions, transfers, lastOp, appt, resp, note>>

\* appointment.get_jitsi_room_name() on the loaded instance: when it holds
\* no name, a fresh one is made and saved with update_fields
RoomGetName(r, fresh) ==
    /\ req[r].pc = "get_name"
    /\ appt' = IF req[r].appt.jitsi_room_name = NULL
               THEN [appt EXCEPT !.jitsi_room_name = fresh]
               ELSE appt
    /\ req' = [req EXCEPT ![r].pc = "done", ![r].result = "ok",
                          ![r].room_name = get_jitsi_room_name(req[r].appt, fresh)]
    /\ UNCHANGED <<now, beds, admissions, transfers, lastOp, resp, note>>

NextRoom ==
    \/ \E r \in Reqs, u \in Users : RoomRequest(r, u)
    \/ \E r \in Reqs, fresh \in RoomNames : RoomGetName(r, fresh)
    \/ \E r \in Reqs : ReqFinish(r)

SpecRoom == InitRoom /\ [][NextRoom]_vars

\* ------------------------------------------------------------ SOAP note
InitNote ==
    /\ now = 0
    /\ beds = [b \in Beds |-> NewBed]
    /\ admissions = <<>>
    /\ transfers = <<>>
    /\ lastOp = "none"
    /\ req = [r \in Reqs |-> IdleReq]
    /\ appt = NewAppointment
    /\ resp = NoResp
    /\ note \in {[NewNote EXCEPT !.status = s] : s \in {"draft", "completed"}}

\* SOAPNoteDetailView.post with 'sign' in the form, request.user = u
SignNotePost(u) ==
    /\ IF note.provider = u
       THEN /\ note' = sign_note(note, now)
            /\ lastOp' = "ok"
       ELSE /\ lastOp' = "NotProvider"
            /\ UNCHANGED note
    /\ UNCHANGED <<now, beds, admissions, transfers, req, appt, resp>>

\* note.amend_note(amendment_text)
AmendNote(amendment_text) ==
    /\ Len(note.amendment_notes) < MaxAmendments
    /\ note' = amend_note(note, amendment_text, now)
    /\ lastOp' = "ok"
    /\ UNCHANGED <<now, beds, admissions, transfers, req, appt, resp>>

NextNote ==
    \/ \E u \in Staff : SignNotePost(u)
    \/ \E text \in AmendmentTexts : AmendNote(text)
    \/ Tick

SpecNote == InitNote /\ [][NextNote]_vars

\* ============================================================ claims

\* C1: every admission whose bed is not null is bound to a bed whose status
\* is 'occupied' and whose current_patient is the admission's patient.
C1_BoundBedIsOccupiedByPatient ==
    \A a \in DOMAIN admissions :
        admissions[a].bed # NULL =>
            /\ beds[admissions[a].bed].status = "occupied"
            /\ beds[admissions[a].bed].current_patient = admissions[a].patient

\* C2: no single step of the bed operations takes a bed's status from
\* 'occupied' straight to 'available'.
C2_NoOccupiedToAvailableStep ==
    [][\A b \in Beds :
          ~(beds[b].status = "occupied" /\ beds'[b].status = "available")]_vars

\* the rows created on the same calendar day as row i, up to and including i
CreatedSameDayUpTo(i) ==
    {j \in 1..i : DateOf(admissions[j].created_at) = DateOf(admissions[i].created_at)}

\* C5: the k-th admission created on calendar day D carries the number
\* ADM-<D>-<k zero-padded to 4 digits>.
C5_SequentialDailyNumbers ==
    \A i \in DOMAIN admissions :
        admissions[i].admission_number =
            <<"ADM", DateOf(admissions[i].created_at),
              ZeroPad(Digits(Cardinality(CreatedSameDayUpTo(i))), 4)>>

\* C6: transfer_bed on an active admission appends exactly one transfer
\* record (from the previous bed to new_bed), leaves the old bed in
\* 'cleaning' with no patient, the new bed 'occupied' by the admission's
\* patient, and rebinds the admission to new_bed.
C6_TransferBedEffect ==
    [][\A a \in DOMAIN admissions, nb \in Beds :
          (TransferBed(a, nb) /\ is_active(admissions[a])) =>
              /\ transfers' = Append(transfers, NewTransfer(a, admissions[a].bed, nb))
              /\ admissions[a].bed # NULL =>
                    /\ beds'[admissions[a].bed].status = "cleaning"
                    /\ beds'[admissions[a].bed].current_patient = NULL
              /\ beds'[nb].status = "occupied"
              /\ beds'[nb].current_patient = admissions[a].patient
              /\ admissions'[a].bed = nb]_vars

\* C7: discharge on an admission that is already 'discharged' fails with
\* InvalidTransition and leaves the admission and its bed as they were.
C7_DischargeDischargedRejected ==
    [][\A a \in DOMAIN admissions, inp \in DischargeInputs :
          (Discharge(a, inp) /\ admissions[a].status = "discharged") =>
              /\ lastOp' = "InvalidTransition"
              /\ admissions'[a] = admissions[a]
              /\ beds' = beds]_vars

\* both requests asked for the same bed for different patients, passed the
\* form's availability check and called mark_occupied
RacedForBed(r1, r2) ==
    /\ r1 # r2
    /\ req[r1].pc = "done" /\ req[r2].pc = "done"
    /\ req[r1].bed # NULL /\ req[r1].bed = req[r2].bed
    /\ req[r1].patient # req[r2].patient
    /\ req[r1].result \notin {"FormInvalid", "IntegrityError"}
    /\ req[r2].result \notin {"FormInvalid", "IntegrityError"}

\* C3: of two occupy calls racing for the same available bed exactly one
\* succeeds, the other is refused, and the bed is bound to the winner's patient.
C3_ExactlyOneOccupyWins ==
    \A r1, r2 \in Reqs :
        RacedForBed(r1, r2) =>
            \/ /\ req[r1].result = "ok"
               /\ req[r2].result \in {"BedUnavailable", "InvalidTransition"}
               /\ beds[req[r1].bed].current_patient = req[r1].patient
            \/ /\ req[r2].result = "ok"
               /\ req[r1].result \in {"BedUnavailable", "InvalidTransition"}
               /\ beds[req[r1].bed].current_patient = req[r2].patient

\* C4: no two persisted admissions carry the same admission_number.
C4_AdmissionNumbersUnique ==
    \A i, j \in DOMAIN admissions :
        i # j => admissions[i].admission_number # admissions[j].admission_number

\* two requests read the same count, one saved, the other was refused
C4_Witness ==
    \E r1, r2 \in Reqs :
        /\ r1 # r2
        /\ req[r1].result = "ok" /\ req[r2].result = "IntegrityError"
        /\ req[r1].number = req[r2].number
        /\ \E i \in DOMAIN admissions : admissions[i].admission_number = req[r1].number

\* the last response came from one of the two join handlers
JoinHandlerAnswered == resp.handler \in {"room", "status"}

\* C8: the join check lets in exactly the appointment's doctor and patient,
\* whatever the telemedicine flag and the time.
C8_OnlyParticipantsMayJoin ==
    JoinHandlerAnswered =>
        (resp.authorized <=> resp.user \in {appt.doctor, appt.patient})

\* a third user is turned away while the call window is open
C8_Witness ==
    /\ JoinHandlerAnswered
    /\ resp.user = "eve" /\ ~resp.authorized
    /\ appt.is_telemedicine
    /\ now = get_appointment_datetime(appt)

WindowStart == get_appointment_datetime(appt) - PreMinutes * 60
WindowEnd == get_appointment_datetime(appt) + PostMinutes * 60

\* C9: for a telemedicine appointment at T the answer is too-early exactly
\* when now < T - 10 min, expired exactly when now > T + 30 min, available
\* otherwise (both boundaries included).
C9_WindowTriState ==
    (JoinHandlerAnswered /\ resp.authorized /\ appt.is_telemedicine) =>
        /\ resp.kind = "too_early" <=> now < WindowStart
        /\ resp.kind = "expired" <=> now > WindowEnd
        /\ resp.kind = "available" <=> (WindowStart <= now /\ now <= WindowEnd)
        /\ resp.is_available <=> resp.kind = "available"

\* a participant asks at the closing instant T + 30 min and is let in
C9_Witness ==
    /\ JoinHandlerAnswered /\ resp.authorized /\ appt.is_telemedicine
    /\ now = WindowEnd
    /\ resp.kind = "available" /\ resp.is_available

\* the least whole number of minutes covering s seconds
CeilToMinute(s) == (s + 59) \div 60

\* C10: a too-early answer carries the time until T - 10 min rounded up to
\* whole minutes, in the message and in time_until_available.
C10_MinutesRoundedUp ==
    (JoinHandlerAnswered /\ resp.kind = "too_early") =>
        /\ resp.minutes = CeilToMinute(WindowStart - now)
        /\ resp.time_until_available = CeilToMinute(WindowStart - now)

\* C11: for every ward the numbers of its active beds that are occupied,
\* available, reserved, under maintenance and in cleaning add up to
\* ward.total_beds.
C11_WardCountsAddUp ==
    \A w \in Wards :
        ActiveBedsWithStatus(beds, w, "occupied")
        + available_beds(beds, w)
        + ActiveBedsWithStatus(beds, w, "reserved")
        + ActiveBedsWithStatus(beds, w, "maintenance")
        + ActiveBedsWithStatus(beds, w, "cleaning")
        = total_beds(beds, w)

\* a ward with one bed taken out of service while occupied and one active
\* bed in cleaning
C11_Witness ==
    \E b1, b2 \in Beds :
        /\ WardOf[b1] = WardOf[b2]
        /\ ~beds[b1].is_active /\ beds[b1].status = "occupied"
        /\ beds[b2].is_active /\ beds[b2].status = "cleaning"
        /\ total_beds(beds, WardOf[b1]) = 1

\* C12: through mark_occupied, mark_available and mark_cleaned in any order a
\* bed has a current_patient if and only if its status is 'occupied'.
C12_PatientIffOccupied ==
    \A b \in Beds :
        beds[b].current_patient # NULL <=> beds[b].status = "occupied"

\* the caller r began on a bed that was available with no patient
RoundFromAvailable(r) ==
    /\ req[r].pc \in RoundPcs
    /\ req[r].bedrow.status = "available"
    /\ req[r].bedrow.current_patient = NULL

\* C13: from an available bed with no patient, mark_occupied(p) leaves it
\* 'occupied' by p, mark_available() then leaves it 'cleaning' with no
\* patient, and mark_cleaned() then returns it to 'available' with no
\* patient, every other field but last_cleaned as it was.
C13_RoundTrip ==
    \A r \in Reqs :
        RoundFromAvailable(r) =>
            LET bed == beds[req[r].bed]
            IN  /\ req[r].pc = "rt_release" =>
                      /\ bed.status = "occupied"
                      /\ bed.current_patient = req[r].patient
                /\ req[r].pc = "rt_clean" =>
                      /\ bed.status = "cleaning"
                      /\ bed.current_patient = NULL
                /\ req[r].pc = "done" =>
                      /\ bed.status = "available"
                      /\ bed.current_patient = NULL
                      /\ bed = [req[r].bedrow EXCEPT !.last_cleaned = bed.last_cleaned]

\* the three calls have been made on a bed that began available
C13_Witness ==
    \E r \in Reqs :
        /\ RoundFromAvailable(r)
        /\ req[r].pc = "done"
        /\ beds[req[r].bed].status = "available"
        /\ beds[req[r].bed].last_cleaned = now

\* C14: mark_occupied on a bed that is neither 'available' nor 'reserved'
\* is rejected with InvalidTransition and leaves the bed's status and
\* current_patient as they were.
C14_OccupyGuarded ==
    [][\A b \in Beds, p \in Patients :
          (BedOccupy(b, p) /\ beds[b].status \notin {"available", "reserved"}) =>
              /\ lastOp' = "InvalidTransition"
              /\ beds'[b].status = beds[b].status
              /\ beds'[b].current_patient = beds[b].current_patient]_vars

\* C20: mark_available on a bed that is not 'occupied' is rejected and
\* leaves the bed unchanged; on an occupied bed it sets 'cleaning' and
\* clears the patient.
C20_ReleaseGuarded ==
    [][\A b \in Beds :
          BedRelease(b) =>
              IF beds[b].status = "occupied"
              THEN /\ beds'[b].status = "cleaning"
                   /\ beds'[b].current_patient = NULL
              ELSE /\ lastOp' = "InvalidTransition"
                   /\ beds'[b] = beds[b]]_vars

\* the terminal statuses of an admission
TERMINAL_STATUSES == {"discharged", "deceased", "absconded"}

\* C16: every admission whose status is discharged, deceased or absconded
\* has no bed bound.
C16_TerminalHasNoBed ==
    \A a \in DOMAIN admissions :
        admissions[a].status \in TERMINAL_STATUSES => admissions[a].bed = NULL

\* C18: transfer_bed on an admission that is not active fails with
\* InvalidTransition, and on a new_bed that is neither 'available' nor
\* 'reserved' with BedUnavailable; either way the beds, the admission's bed
\* and the transfer records stay as they were.
C18_TransferBedRejected ==
    [][\A a \in DOMAIN admissions, nb \in Beds :
          (TransferBed(a, nb)
             /\ (~is_active(admissions[a])
                    \/ beds[nb].status \notin {"available", "reserved"})) =>
              /\ lastOp' = IF ~is_active(admissions[a])
                           THEN "InvalidTransition" ELSE "BedUnavailable"
              /\ beds' = beds
              /\ admissions'[a].bed = admissions[a].bed
              /\ transfers' = transfers]_vars

\* C19: a discharge or transfer_bed call on an admission whose status is
\* terminal changes neither its status, its actual_discharge_date, its bed
\* nor the status of any bed.
C19_TerminalFrame ==
    [][\A a \in DOMAIN admissions :
          (/\ admissions[a].status \in TERMINAL_STATUSES
           /\ \/ \E inp \in DischargeInputs : Discharge(a, inp)
              \/ \E nb \in Beds : TransferBed(a, nb)) =>
              /\ admissions'[a].status = admissions[a].status
              /\ admissions'[a].actual_discharge_date = admissions[a].actual_discharge_date
              /\ admissions'[a].bed = admissions[a].bed
              /\ \A b \in Beds : beds'[b].status = beds[b].status]_vars

\* the stored admission a names a bed that is not occupied for its patient
StoredWithoutItsBed(a) ==
    /\ admissions[a].bed # NULL
    /\ \/ beds[admissions[a].bed].status # "occupied"
       \/ beds[admissions[a].bed].current_patient # admissions[a].patient

\* no admission request is between its first and its last statement
NoRequestRunning == \A r \in Reqs : req[r].pc \in {"idle", "done"}

\* C15: admit with a bed is all-or-nothing: a request refused for its bed
\* has consumed no number, and once the requests have run to their end no
\* admission is stored with a bed that is not occupied for it.
C15_AdmitAllOrNothing ==
    /\ \A r \in Reqs :
          req[r].result = "FormInvalid" => req[r].number = NoNumber
    /\ NoRequestRunning => ~ \E a \in DOMAIN admissions : StoredWithoutItsBed(a)

\* C17: discharge on an active admission sets status 'discharged', stamps
\* actual_discharge_date with the current time, records discharged_by and
\* the three discharge texts, and leaves the bound bed, if any, in
\* 'cleaning' with no patient.
C17_DischargeEffect ==
    [][\A a \in DOMAIN admissions, inp \in DischargeInputs :
          (Discharge(a, inp) /\ is_active(admissions[a])) =>
              /\ admissions'[a].status = "discharged"
              /\ admissions'[a].actual_discharge_date = now
              /\ admissions'[a].discharged_by = inp.by
              /\ admissions'[a].discharge_diagnosis = inp.diagnosis
              /\ admissions'[a].discharge_summary = inp.summary
              /\ admissions'[a].discharge_instructions = inp.instructions
              /\ admissions[a].bed # NULL =>
                    /\ beds'[admissions[a].bed].status = "cleaning"
                    /\ beds'[admissions[a].bed].current_patient = NULL]_vars

\* an admission with a bed, made on day 0, has been discharged a day later
\* and its bed is in cleaning
C17_Witness ==
    \E a \in DOMAIN admissions :
        /\ admissions[a].status = "discharged"
        /\ admissions[a].bed # NULL
        /\ admissions[a].actual_discharge_date = now
        /\ admissions[a].actual_discharge_date > admissions[a].admission_date
        /\ beds[admissions[a].bed].status = "cleaning"
        /\ beds[admissions[a].bed].current_patient = NULL

\* C21: mark_cleaned on a bed in 'cleaning' sets it 'available' and records
\* last_cleaned; on a bed in any other status it leaves the bed's status
\* and current_patient as they were (the call being rejected).
C21_MarkCleanedGuarded ==
    [][\A b \in Beds :
          MarkCleaned(b) =>
              IF beds[b].status = "cleaning"
              THEN /\ beds'[b].status = "available"
                   /\ beds'[b].last_cleaned = now
              ELSE /\ beds'[b].status = beds[b].status
                   /\ beds'[b].current_patient = beds[b].current_patient]_vars

\* C22: mark_occupied, mark_available or mark_cleaned on a bed whose
\* is_active is false fails with InactiveResource and changes neither the
\* bed's status nor its current_patient.
C22_InactiveBedRefused ==
    [][\A b \in Beds :
          (/\ ~beds[b].is_active
           /\ \/ \E p \in Patients : BedOccupy(b, p)
              \/ BedRelease(b)
              \/ MarkCleaned(b)) =>
              /\ beds'[b].status = beds[b].status
              /\ beds'[b].current_patient = beds[b].current_patient
              /\ lastOp' = "InactiveResource"]_vars

\* C23: length_of_stay, read at any moment, is the whole days from
\* admission_date to actual_discharge_date (or to now) and is never
\* negative, whatever admission_date was entered.
C23_LengthOfStayNonNegative ==
    \A a \in DOMAIN admissions :
        length_of_stay(admissions[a], now) >= 0

\* C24: no bed is the bed of two active admissions at the same time.
C24_NoBedSharedByActiveAdmissions ==
    \A a1, a2 \in DOMAIN admissions :
        (/\ a1 # a2
         /\ is_active(admissions[a1]) /\ is_active(admissions[a2])
         /\ admissions[a1].bed # NULL) =>
            admissions[a1].bed # admissions[a2].bed

\* the transfer_bed call r stopped before its last statement, on an active
\* admission and a new bed that was free to take
StoppedTransfer(r) ==
    /\ req[r].pc = "done" /\ req[r].result = "crashed"
    /\ is_active(req[r].self)
    /\ req[r].bedrow.status \in {"available", "reserved"}

\* the stored state is the one before the call r
AsBeforeTransfer(r) ==
    /\ admissions[req[r].adm] = req[r].self
    /\ beds[req[r].bed] = req[r].bedrow
    /\ req[r].old_bed # NULL => beds[req[r].old_bed] = req[r].old_row
    /\ Len(transfers) = req[r].ledger

\* the stored state is the one after the whole call r
AsAfterTransfer(r) ==
    /\ admissions[req[r].adm] = [req[r].self EXCEPT !.bed = req[r].bed]
    /\ beds[req[r].bed] = mark_occupied(req[r].bedrow, req[r].patient)
    /\ req[r].old_bed # NULL => beds[req[r].old_bed] = mark_available(req[r].old_row)
    /\ Len(transfers) = req[r].ledger + 1
    /\ transfers[Len(transfers)] = NewTransfer(req[r].adm, req[r].old_bed, req[r].bed)

\* C25: when transfer_bed stops after any of its saves, the stored state is
\* either entirely the state before the call or entirely the state after it.
C25_TransferBedAtomic ==
    \A r \in Reqs :
        StoppedTransfer(r) => (AsBeforeTransfer(r) \/ AsAfterTransfer(r))

\* C30: once sign_note has been called (signed_at is set) is_locked is true
\* after every later step; amend_note changes the note when its status is
\* 'signed' and leaves it untouched in every other status.
C30_SignedStaysLocked ==
    [][/\ note'.signed_at # NoTime => is_locked(note')
       /\ \A text \in AmendmentTexts :
             AmendNote(text) =>
                 IF note.status = "signed"
                 THEN /\ note'.status = "amended"
                      /\ Len(note'.amendment_notes) = Len(note.amendment_notes) + 1
                 ELSE note' = note]_vars

\* the note was signed, amended, and signed again
C30_Witness ==
    /\ note.status = "signed"
    /\ note.signed_at # NoTime
    /\ Len(note.amendment_notes) >= 1

\* the call window of the appointment is open
InCallWindow == appt.is_telemedicine /\ WindowStart <= now /\ now <= WindowEnd

\* C26: a join handler puts a room name in its response only for the
\* doctor or the patient while the call window is open; any other user is
\* refused in every window state, gets no room name, and no room name is
\* generated or stored for the request. (A step that leaves a response of
\* handler "room" or "status" is a step of that handler for resp'.user.)
C26_RoomNameOnlyForParticipantsInWindow ==
    [][resp'.handler \in {"room", "status"} =>
          LET u == resp'.user
          IN  /\ resp'.room_name # NULL =>
                    /\ u \in {appt.doctor, appt.patient}
                    /\ InCallWindow
              /\ u \notin {appt.doctor, appt.patient} =>
                    /\ resp'.status \in {"302", "403"}
                    /\ resp'.room_name = NULL
                    /\ appt' = appt]_vars

\* inside the open window a third user is refused before any room name exists
C26_Witness ==
    /\ JoinHandlerAnswered
    /\ resp.user \notin {appt.doctor, appt.patient}
    /\ resp.status \in {"302", "403"}
    /\ InCallWindow
    /\ appt.jitsi_room_name = NULL

\* C28: while is_telemedicine is false the appointment is not available for
\* a call at any time, the open window included, and a participant who asks
\* is told so and gets no room name.
C28_NotTelemedicineNeverAvailable ==
    ~appt.is_telemedicine =>
        /\ ~is_available_for_call(appt, now).ok
        /\ (JoinHandlerAnswered /\ resp.authorized) =>
              /\ ~resp.is_available
              /\ resp.kind = "not_telemedicine"
              /\ resp.room_name = NULL

\* the doctor switched the flag off after a room name had been handed out;
\* a participant asks inside the 10-minutes-before to 30-minutes-after span
C28_Witness ==
    /\ ~appt.is_telemedicine
    /\ appt.jitsi_room_name # NULL
    /\ WindowStart <= now /\ now <= WindowEnd
    /\ JoinHandlerAnswered /\ resp.authorized
    /\ ~resp.is_available

\* C29: toggle_telemedicine flips is_telemedicine only for the appointment's
\* doctor; any other requester, the patient included, gets 403 and the
\* appointment is left as it was. (A step that leaves a response of handler
\* "toggle" is a toggle_telemedicine step for resp'.user.)
C29_OnlyDoctorToggles ==
    [][resp'.handler = "toggle" =>
          IF resp'.user = appt.doctor
          THEN /\ appt' = [appt EXCEPT !.is_telemedicine = ~appt.is_telemedicine]
               /\ resp'.status = "200"
          ELSE /\ resp'.status = "403"
               /\ appt' = appt]_vars

\* the patient asked to toggle and was refused
C29_Witness ==
    /\ resp.handler = "toggle"
    /\ resp.user = appt.patient
    /\ resp.status = "403"

\* the request r has been answered with a room name
GotRoomName(r) == req[r].pc = "done" /\ req[r].result = "ok"

\* C27: the doctor and the patient are answered with the same room name,
\* the one stored on the appointment, also when their first calls run
\* concurrently.
C27_OneCommonRoomName ==
    \A r1, r2 \in Reqs :
        (/\ GotRoomName(r1) /\ req[r1].user = appt.doctor
         /\ GotRoomName(r2) /\ req[r2].user = appt.patient) =>
            /\ req[r1].room_name = req[r2].room_name
            /\ req[r1].room_name = appt.jitsi_room_name

====
